---- MODULE Spec2Model ----
(***************************************************************************)
(* Model of bin/fan-control.py: a Raspberry Pi fan controller.             *)
(*                                                                         *)
(* The process is one Python thread.  Its control state is a stack of      *)
(* frames: the bottom frame is main(), every frame above it is one         *)
(* activation of SignalHandler.handler, pushed when SIGTERM is delivered   *)
(* between two steps of the frame below.  SIGINT raises KeyboardInterrupt  *)
(* in the running frame.  RPi.GPIO is modelled by the state it keeps for   *)
(* the fan pin: whether the pin is set up as an output, the level last     *)
(* written, and the state of the software PWM channel.                     *)
(*                                                                         *)
(* Temperatures are in tenths of a degree Celsius (45.1 is 451).           *)
(***************************************************************************)
EXTENDS Integers, Sequences, FiniteSets, TLC

\* ------------------------------------------------------------------ bounds
\* Signals (SIGTERM and SIGINT together) delivered in one run.
MaxSignals == 3

\* The pwm blocks of the duty-ratio specification have their bounds among the
\* whole degrees 60 .. 60 + DutyTempMax.
DutyTempMax == 6

\* ------------------------------------------------------ YAML/Python values
\* A number and a string as configuration values; the field name is the type.
Num(n) == [num |-> n]
Str(s) == [str |-> s]
IsNumber(v) == "num" \in DOMAIN v

\* Configuration keys (lines 14-23).
GPIO_FAN == "port"
FREQ == "freq"
DUTY_RATIO_MIN == "duty_min"
MODE == "mode"
PWM == "pwm"
SLEEP_TIME == "interval"
TEMP_THRESHOLD == "threshold"
TEMP_MIN == "temp_min"
TEMP_MAX == "temp_max"

\* The default configuration, the module-level dictionary.
CONFIG ==
    [port |-> Num(12),
     threshold |-> Num(700),
     pwm |-> [freq |-> Num(50), duty_min |-> Num(70),
              temp_max |-> Num(850), temp_min |-> Num(650)],
     interval |-> Num(30)]

\* dict.update: the keys of the argument replace those of the receiver whole
\* (a nested dictionary is replaced, not merged).
DictUpdate(d, u) ==
    [k \in (DOMAIN d) \cup (DOMAIN u) |-> IF k \in DOMAIN u THEN u[k] ELSE d[k]]

\* dict item assignment d[k] = v.
DictSet(d, k, v) ==
    [j \in (DOMAIN d) \cup {k} |-> IF j = k THEN v ELSE d[j]]

\* ------------------------------------------------------ configuration files
\* The configuration sources of a run: no -c option, or a file with the
\* named content.
ConfigSources ==
    {"nofile", "empty", "threshold_only", "mode_only", "bad_interval",
     "pwm_full", "pwm_no_freq", "pwm_no_bounds", "pwm_inverted", "pwm_equal"}

\* A source whose YAML document is empty: yaml.load returns None.
YamlIsNone(src) == src = "empty"

\* yaml.load of the file of a source (a mapping).
YamlLoad(src) ==
    CASE src = "threshold_only" -> [threshold |-> Num(600)]
      [] src = "mode_only"      -> [mode |-> Str("onoff")]
      [] src = "bad_interval"   -> [interval |-> Str("30s")]
      [] src = "pwm_full"       ->
            [pwm |-> [freq |-> Num(25), duty_min |-> Num(50),
                      temp_max |-> Num(800), temp_min |-> Num(600)]]
      [] src = "pwm_no_freq"    ->
            [pwm |-> [duty_min |-> Num(50),
                      temp_max |-> Num(800), temp_min |-> Num(600)]]
      [] src = "pwm_no_bounds"  -> [pwm |-> [freq |-> Num(25)]]
      [] src = "pwm_inverted"   ->
            [pwm |-> [freq |-> Num(25), duty_min |-> Num(50),
                      temp_max |-> Num(600), temp_min |-> Num(800)]]
      [] src = "pwm_equal"      ->
            [pwm |-> [freq |-> Num(25), duty_min |-> Num(50),
                      temp_max |-> Num(700), temp_min |-> Num(700)]]

\* loadConfig on a source whose document is a mapping (or on no file).
loadConfig(src) ==
    IF src = "nofile" THEN CONFIG
    ELSE LET user_conf == YamlLoad(src)
             config1 == IF PWM \in DOMAIN user_conf
                        THEN DictSet(CONFIG, MODE, Str(PWM))
                        ELSE CONFIG
         IN  DictUpdate(config1, user_conf)

\* ------------------------------------------------------------ temperature
\* Raw contents of the temperature file (millidegrees), one line.
RawReadings == {500, 45123, 64900, 70000, 71000, 75000, 86000}

\* getTemperature raises ZeroDivisionError on int(temp2) % int(temp1).
getTemperatureRaises(r) == r \div 1000 = 0

\* getTemperature on a raw reading r >= 1000, in tenths of a degree.
getTemperature(r) ==
    LET temp1 == r \div 1000
        temp2 == r \div 100
        tempm == temp2 % temp1
    IN  temp1 * 10 + tempm

\* int() taken as rounding to the nearest integer.
Trunc_round(n, d) == (2 * n + d) \div (2 * d)

\* int(): truncation toward zero of the quotient n / d, d > 0.
Trunc(n, d) == IF n >= 0 THEN n \div d ELSE -((-n) \div d)

\* getDutyRatio raises ZeroDivisionError on (temp - low) / (high - low).
getDutyRatioRaises(temp, high, low) ==
    ~(high < temp) /\ ~(temp < low) /\ high = low

\* getDutyRatio without the test temp < low.
getDutyRatio_noLow(temp, high, low, duty_min) ==
    IF high < temp THEN 100
    ELSE LET n == (temp - low) * (100 - duty_min) + duty_min * (high - low)
             d == high - low
         IN  IF n < 100 * d THEN Trunc(n, d) ELSE 100

\* getDutyRatio with the two saturation values exchanged.
getDutyRatio_swapped(temp, high, low, duty_min) ==
    IF high < temp THEN 0
    ELSE IF temp < low THEN 100
    ELSE LET n == (temp - low) * (100 - duty_min) + duty_min * (high - low)
             d == high - low
         IN  IF n < 100 * d THEN Trunc(n, d) ELSE 100

\* getDutyRatio with "- duty_min" for "+ duty_min" in line 67.
getDutyRatio_minus(temp, high, low, duty_min) ==
    IF high < temp THEN 100
    ELSE IF temp < low THEN 0
    ELSE LET n == (temp - low) * (100 - duty_min) - duty_min * (high - low)
             d == high - low
         IN  IF n < 100 * d THEN Trunc(n, d) ELSE 100

\* getDutyRatio(temp, high, low, duty_min) where it does not raise.
getDutyRatio(temp, high, low, duty_min) ==
    IF high < temp THEN 100
    ELSE IF temp < low THEN 0
    ELSE LET n == (temp - low) * (100 - duty_min) + duty_min * (high - low)
             d == high - low
         IN  IF n < 100 * d THEN Trunc(n, d) ELSE 100

\* Line 67 is evaluated in binary floating point.  The steps below are sure to
\* be exact: a reading at low (the quotient is 0.0) or at high (it is 1.0), a
\* duty_min of 100 (the product is 0.0), or three temperatures that are
\* multiples of half a degree with a quotient whose denominator is a power of
\* two.
Representable(x) == x % 5 = 0

RECURSIVE GCD(_, _)
GCD(a, b) == IF b = 0 THEN a ELSE GCD(b, a % b)

PowerOfTwo(n) == \E e \in 0..12 : n = 2 ^ e

FloatExact(temp, high, low, duty_min) ==
    \/ temp = low
    \/ temp = high
    \/ duty_min = 100
    \/ /\ Representable(temp)
       /\ Representable(high)
       /\ Representable(low)
       /\ PowerOfTwo((high - low) \div GCD(temp - low, high - low))

\* The values getDutyRatio can return under floating point, where it does not
\* raise.  Where the interpolation is an integer k and the evaluation is not
\* sure to be exact, dr may come out just beside k, and int() then yields the
\* neighbour of k toward zero (29 for temp = 60.3, low = 60, high = 61,
\* duty_min = 0).  Everywhere else dr is far enough from an integer for the
\* rounding not to show.
getDutyRatioFloat(temp, high, low, duty_min) ==
    LET n == (temp - low) * (100 - duty_min) + duty_min * (high - low)
        d == high - low
        r == getDutyRatio(temp, high, low, duty_min)
    IN  IF high < temp \/ temp < low THEN {r}
        ELSE IF FloatExact(temp, high, low, duty_min) THEN {r}
        ELSE IF n % d # 0 \/ n = 0 \/ n > 100 * d THEN {r}
        ELSE IF n > 0 THEN {r, (n \div d) - 1}
        ELSE {r, Trunc(n, d) + 1}

\* ------------------------------------------------------------------ state
VARIABLES
    cfgSrc,        \* the configuration source of this run (args.config)
    config,        \* the module-level CONFIG dictionary, as loadConfig left it
    fanBound,      \* main's local variable fan has been assigned
    fan_pwm,       \* Fan.pwm: "None" or "PWM"
    fan_control,   \* Fan.control: "unset", "on_off_control" or "pwm_control"
    registered,    \* the SIGTERM handler is installed
    stack,         \* the frames of the thread, main() first
    exitStatus,    \* -1 while the process runs, then its exit status
    temp,          \* the last reading getTemperature() returned (0: none yet)
    gpioSetup,     \* RPi.GPIO: the fan pin is set up as an output
    pinLevel,      \* RPi.GPIO: the level last written to the fan pin
    pwmRunning,    \* RPi.GPIO: the PWM channel of the pin is started
    pwmDuty,       \* RPi.GPIO: the duty cycle of the PWM channel
    nTerm,         \* observation: SIGTERMs delivered
    nInt,          \* observation: SIGINTs delivered
    termAtSleep,   \* observation: a SIGTERM arrived while run() slept
    cleanUpCalls,  \* observation: invocations of Fan.clean_up
    cleanUpDone,   \* observation: invocations of Fan.clean_up that returned
    released,      \* observation: calls of GPIO.cleanup()
    usedAfterCleanUp, \* observation: a hardware call after a clean_up returned
    raised,        \* observation: the last exception raised and where
    dutyCalls,     \* observation: ChangeDutyCycle calls since the last reading
    pinCalls       \* observation: GPIO.output calls of the control since then

hw == <<gpioSetup, pinLevel, pwmRunning, pwmDuty>>
fanVars == <<fanBound, fan_pwm, fan_control>>
sigObs == <<nTerm, nInt, termAtSleep>>
ctlObs == <<dutyCalls, pinCalls>>
vars == <<cfgSrc, config, fanBound, fan_pwm, fan_control, registered, stack,
          exitStatus, temp, gpioSetup, pinLevel, pwmRunning, pwmDuty,
          nTerm, nInt, termAtSleep, cleanUpCalls, cleanUpDone, released,
          usedAfterCleanUp, raised, dutyCalls, pinCalls>>

NoException == [exc |-> "none", pc |-> "none", clause |-> "none"]

Init ==
    /\ cfgSrc \in ConfigSources
    /\ config = CONFIG
    /\ fanBound = FALSE
    /\ fan_pwm = "None"
    /\ fan_control = "unset"
    /\ registered = FALSE
    /\ stack = <<[clause |-> "try", pc |-> "loadConfig"]>>
    /\ exitStatus = -1
    /\ temp = 0
    /\ gpioSetup = FALSE
    /\ pinLevel = FALSE
    /\ pwmRunning = FALSE
    /\ pwmDuty = 0
    /\ nTerm = 0
    /\ nInt = 0
    /\ termAtSleep = FALSE
    /\ cleanUpCalls = 0
    /\ cleanUpDone = 0
    /\ released = 0
    /\ usedAfterCleanUp = FALSE
    /\ raised = NoException
    /\ dutyCalls = 0
    /\ pinCalls = 0

\* --------------------------------------------------------- control helpers
Running == exitStatus = -1 /\ Len(stack) > 0
Top == stack[Len(stack)]
At(clauses, pc) == Running /\ Top.clause \in clauses /\ Top.pc = pc
Goto(pc) == stack' = [stack EXCEPT ![Len(stack)].pc = pc]

\* The except clause of main() that handles an exception raised inside try.
ExceptClause(exc) ==
    CASE exc = "KeyboardInterrupt" -> "KeyboardInterrupt"
      [] exc = "TypeError"         -> "TypeError"
      [] OTHER                     -> "Exception"

\* SystemExit derives from BaseException: no clause of main() handles it.
Caught(exc) == stack[1].clause = "try" /\ exc # "SystemExit"

\* The first step of an except clause.
ClauseEntry(clause) ==
    IF clause = "Exception" THEN "log_exception" ELSE "clean_up"

\* The exit status of a process ended by an exception nothing handles.
UncaughtStatus(exc) == IF exc = "SystemExit" THEN 0 ELSE 1

\* An exception raised in the running frame.  Handler frames have no try
\* statement: the exception leaves them all and arrives in main() where main()
\* was interrupted.
Raise(exc) ==
    /\ raised' = [exc |-> exc, pc |-> Top.pc, clause |-> Top.clause]
    /\ IF Caught(exc)
       THEN /\ stack' = <<[clause |-> ExceptClause(exc),
                           pc |-> ClauseEntry(ExceptClause(exc))]>>
            /\ exitStatus' = exitStatus
       ELSE /\ stack' = <<>>
            /\ exitStatus' = UncaughtStatus(exc)

\* A call into RPi.GPIO that took effect, noted when a clean_up of the Fan had
\* returned before it.
HwCall == usedAfterCleanUp' = (usedAfterCleanUp \/ cleanUpDone >= 1)

cuObs == <<cleanUpCalls, cleanUpDone, released>>
cfgVars == <<cfgSrc, config>>

\* ------------------------------------------------- main(): lines 186 - 190
\* loadConfig(args.config) returns the dictionary the Fan is built from.
LoadConfig ==
    /\ At({"try"}, "loadConfig")
    /\ ~YamlIsNone(cfgSrc)
    /\ config' = loadConfig(cfgSrc)
    /\ Goto("init_gpio")
    /\ UNCHANGED ctlObs
    /\ UNCHANGED <<cfgSrc, fanVars, registered, exitStatus, temp, hw, sigObs,
                   cuObs, usedAfterCleanUp, raised>>

\* "PWM in user_conf" on the None of an empty document is a TypeError.
LoadConfigTypeError ==
    /\ At({"try"}, "loadConfig")
    /\ YamlIsNone(cfgSrc)
    /\ Raise("TypeError")
    /\ UNCHANGED ctlObs
    /\ UNCHANGED <<cfgVars, fanVars, registered, temp, hw, sigObs, cuObs,
                   usedAfterCleanUp>>

\* Fan.__init__, lines 76 - 82: the pin becomes an output, on/off is preset.
InitGpio ==
    /\ At({"try"}, "init_gpio")
    /\ gpioSetup' = TRUE
    /\ fan_pwm' = "None"
    /\ fan_control' = "on_off_control"
    /\ HwCall
    /\ Goto("init_pwm")
    /\ UNCHANGED ctlObs
    /\ UNCHANGED <<cfgVars, fanBound, registered, exitStatus, temp, pinLevel,
                   pwmRunning, pwmDuty, sigObs, cuObs, raised>>

\* The test of line 84: the dictionary has a mode key and a pwm key.
PwmSelected(cfg) == \A k \in {MODE, PWM} : k \in DOMAIN cfg

\* Line 84 is false: construction ends, main() assigns fan.
InitOnOff ==
    /\ At({"try"}, "init_pwm")
    /\ ~PwmSelected(config)
    /\ fanBound' = TRUE
    /\ Goto("signal")
    /\ UNCHANGED ctlObs
    /\ UNCHANGED <<cfgVars, fan_pwm, fan_control, registered, exitStatus, temp,
                   hw, sigObs, cuObs, usedAfterCleanUp, raised>>

\* Lines 86 - 87: the PWM channel is created at config[PWM][FREQ].
InitPwm ==
    /\ At({"try"}, "init_pwm")
    /\ PwmSelected(config)
    /\ FREQ \in DOMAIN config[PWM]
    /\ fan_pwm' = "PWM"
    /\ HwCall
    /\ Goto("init_start")
    /\ UNCHANGED ctlObs
    /\ UNCHANGED <<cfgVars, fanBound, fan_control, registered, exitStatus, temp,
                   hw, sigObs, cuObs, raised>>

\* Line 87 on a pwm block without freq.
InitPwmKeyError ==
    /\ At({"try"}, "init_pwm")
    /\ PwmSelected(config)
    /\ FREQ \notin DOMAIN config[PWM]
    /\ Raise("KeyError")
    /\ UNCHANGED ctlObs
    /\ UNCHANGED <<cfgVars, fanVars, registered, temp, hw, sigObs, cuObs,
                   usedAfterCleanUp>>

\* Lines 88 - 89: the channel starts at duty 0, the strategy becomes PWM;
\* construction ends, main() assigns fan.
InitStart ==
    /\ At({"try"}, "init_start")
    /\ pwmRunning' = TRUE
    /\ pwmDuty' = 0
    /\ fan_control' = "pwm_control"
    /\ fanBound' = TRUE
    /\ HwCall
    /\ Goto("signal")
    /\ UNCHANGED ctlObs
    /\ UNCHANGED <<cfgVars, fan_pwm, registered, exitStatus, temp, gpioSetup,
                   pinLevel, sigObs, cuObs, raised>>

\* Lines 189 - 190: SIGTERM is bound to SignalHandler(fan.clean_up).handler.
RegisterHandler ==
    /\ At({"try"}, "signal")
    /\ registered' = TRUE
    /\ Goto("getTemperature")
    /\ UNCHANGED ctlObs
    /\ UNCHANGED <<cfgVars, fanVars, exitStatus, temp, hw, sigObs, cuObs,
                   usedAfterCleanUp, raised>>

\* ------------------------------------------------- Fan.run: lines 127 - 131
\* getTemperature() returns the reading of the file's line.
ReadTemperature ==
    /\ At({"try"}, "getTemperature")
    /\ \E r \in RawReadings :
          /\ ~getTemperatureRaises(r)
          /\ temp' = getTemperature(r)
    /\ Goto("control")
    /\ dutyCalls' = 0
    /\ pinCalls' = 0
    /\ UNCHANGED <<cfgVars, fanVars, registered, exitStatus, hw, sigObs, cuObs,
                   usedAfterCleanUp, raised>>

\* The file holds a reading below 1000: int(temp2) % int(temp1) divides by 0.
ReadZeroDivision ==
    /\ At({"try"}, "getTemperature")
    /\ \E r \in RawReadings : getTemperatureRaises(r)
    /\ Raise("ZeroDivisionError")
    /\ UNCHANGED ctlObs
    /\ UNCHANGED <<cfgVars, fanVars, registered, temp, hw, sigObs, cuObs,
                   usedAfterCleanUp>>

\* The file cannot be opened: open() raises IOError.
ReadIOError ==
    /\ At({"try"}, "getTemperature")
    /\ Raise("IOError")
    /\ UNCHANGED ctlObs
    /\ UNCHANGED <<cfgVars, fanVars, registered, temp, hw, sigObs, cuObs,
                   usedAfterCleanUp>>

\* The line is not an integer: int(t) raises ValueError.
ReadValueError ==
    /\ At({"try"}, "getTemperature")
    /\ Raise("ValueError")
    /\ UNCHANGED ctlObs
    /\ UNCHANGED <<cfgVars, fanVars, registered, temp, hw, sigObs, cuObs,
                   usedAfterCleanUp>>

\* on_off_control with the comparison cpu_temp >= threshold.
on_off_control_ge ==
    /\ At({"try"}, "control")
    /\ fan_control = "on_off_control"
    /\ IF gpioSetup
       THEN /\ pinLevel' = (temp >= config[TEMP_THRESHOLD].num)
            /\ HwCall
            /\ pinCalls' = pinCalls + 1
            /\ Goto("sleep")
            /\ UNCHANGED <<exitStatus, raised>>
       ELSE /\ Raise("RuntimeError")
            /\ UNCHANGED <<pinLevel, usedAfterCleanUp, pinCalls>>
    /\ UNCHANGED dutyCalls
    /\ UNCHANGED <<cfgVars, fanVars, registered, temp, gpioSetup, pwmRunning,
                   pwmDuty, sigObs, cuObs>>

\* Fan.on_off_control, through Fan.on / Fan.off and GPIO.output.
on_off_control ==
    /\ At({"try"}, "control")
    /\ fan_control = "on_off_control"
    /\ IF gpioSetup
       THEN /\ pinLevel' = (temp > config[TEMP_THRESHOLD].num)
            /\ HwCall
            /\ pinCalls' = pinCalls + 1
            /\ Goto("sleep")
            /\ UNCHANGED <<exitStatus, raised>>
       ELSE /\ Raise("RuntimeError")
            /\ UNCHANGED <<pinLevel, usedAfterCleanUp, pinCalls>>
    /\ UNCHANGED dutyCalls
    /\ UNCHANGED <<cfgVars, fanVars, registered, temp, gpioSetup, pwmRunning,
                   pwmDuty, sigObs, cuObs>>

\* The keys Fan.pwm_control reads from the pwm block.
PwmControlKeys == {TEMP_MAX, TEMP_MIN, DUTY_RATIO_MIN}

\* The values the duty of line 119 can take for a reading.
pwm_duty(cpu_temp) ==
    getDutyRatioFloat(cpu_temp, config[PWM][TEMP_MAX].num,
                      config[PWM][TEMP_MIN].num,
                      config[PWM][DUTY_RATIO_MIN].num)

\* pwm_control calling ChangeDutyCycle only for a value that differs from the
\* duty cycle in force.
pwm_control_onChange ==
    /\ At({"try"}, "control")
    /\ fan_control = "pwm_control"
    /\ PwmControlKeys \subseteq DOMAIN config[PWM]
    /\ ~getDutyRatioRaises(temp, config[PWM][TEMP_MAX].num,
                           config[PWM][TEMP_MIN].num)
    /\ \E duty \in pwm_duty(temp) :
          IF duty \in 0..100
          THEN /\ pwmDuty' = duty
               /\ HwCall
               /\ dutyCalls' = IF duty = pwmDuty THEN dutyCalls
                                                ELSE dutyCalls + 1
               /\ Goto("sleep")
               /\ UNCHANGED <<exitStatus, raised>>
          ELSE /\ Raise("ValueError")
               /\ UNCHANGED <<pwmDuty, usedAfterCleanUp, dutyCalls>>
    /\ UNCHANGED pinCalls
    /\ UNCHANGED <<cfgVars, fanVars, registered, temp, gpioSetup, pinLevel,
                   pwmRunning, sigObs, cuObs>>

\* Fan.pwm_control with every key present and high # low where it matters.
pwm_control ==
    /\ At({"try"}, "control")
    /\ fan_control = "pwm_control"
    /\ PwmControlKeys \subseteq DOMAIN config[PWM]
    /\ ~getDutyRatioRaises(temp, config[PWM][TEMP_MAX].num,
                           config[PWM][TEMP_MIN].num)
    /\ \E duty \in pwm_duty(temp) :
          IF duty \in 0..100
          THEN /\ pwmDuty' = duty
               /\ HwCall
               /\ dutyCalls' = dutyCalls + 1
               /\ Goto("sleep")
               /\ UNCHANGED <<exitStatus, raised>>
          ELSE /\ Raise("ValueError")
               /\ UNCHANGED <<pwmDuty, usedAfterCleanUp, dutyCalls>>
    /\ UNCHANGED pinCalls
    /\ UNCHANGED <<cfgVars, fanVars, registered, temp, gpioSetup, pinLevel,
                   pwmRunning, sigObs, cuObs>>

\* Lines 120 - 122 on a pwm block that lacks one of the keys.
PwmControlKeyError ==
    /\ At({"try"}, "control")
    /\ fan_control = "pwm_control"
    /\ ~(PwmControlKeys \subseteq DOMAIN config[PWM])
    /\ Raise("KeyError")
    /\ UNCHANGED ctlObs
    /\ UNCHANGED <<cfgVars, fanVars, registered, temp, hw, sigObs, cuObs,
                   usedAfterCleanUp>>

\* Line 67 with high = low = temp.
PwmControlZeroDivision ==
    /\ At({"try"}, "control")
    /\ fan_control = "pwm_control"
    /\ PwmControlKeys \subseteq DOMAIN config[PWM]
    /\ getDutyRatioRaises(temp, config[PWM][TEMP_MAX].num,
                          config[PWM][TEMP_MIN].num)
    /\ Raise("ZeroDivisionError")
    /\ UNCHANGED ctlObs
    /\ UNCHANGED <<cfgVars, fanVars, registered, temp, hw, sigObs, cuObs,
                   usedAfterCleanUp>>

\* run() with a loop that ends after the first sleep.
Sleep_returns ==
    /\ At({"try"}, "sleep")
    /\ IsNumber(config[SLEEP_TIME])
    /\ stack' = <<[clause |-> "after", pc |-> "log_stop"]>>
    /\ UNCHANGED ctlObs
    /\ UNCHANGED <<cfgVars, fanVars, registered, exitStatus, temp, hw, sigObs,
                   cuObs, usedAfterCleanUp, raised>>

\* time.sleep(interval) returns.
Sleep ==
    /\ At({"try"}, "sleep")
    /\ IsNumber(config[SLEEP_TIME])
    /\ Goto("getTemperature")
    /\ UNCHANGED ctlObs
    /\ UNCHANGED <<cfgVars, fanVars, registered, exitStatus, temp, hw, sigObs,
                   cuObs, usedAfterCleanUp, raised>>

\* time.sleep of an interval that is no number.
SleepTypeError ==
    /\ At({"try"}, "sleep")
    /\ ~IsNumber(config[SLEEP_TIME])
    /\ Raise("TypeError")
    /\ UNCHANGED ctlObs
    /\ UNCHANGED <<cfgVars, fanVars, registered, temp, hw, sigObs, cuObs,
                   usedAfterCleanUp>>

\* --------------------------------------------- Fan.clean_up: lines 101 - 107
\* The places that call fan.clean_up(): the two except clauses and the handler.
CleanUpCallers == {"KeyboardInterrupt", "TypeError", "handler"}

\* The call with the PWM stop of lines 103 - 104 left out.
CleanUpCall_skipsStop ==
    /\ At(CleanUpCallers, "clean_up")
    /\ fanBound
    /\ cleanUpCalls' = cleanUpCalls + 1
    /\ Goto("off")
    /\ UNCHANGED ctlObs
    /\ UNCHANGED <<cfgVars, fanVars, registered, exitStatus, temp, hw, sigObs,
                   cleanUpDone, released, usedAfterCleanUp, raised>>

\* The call itself and the test of line 103.
CleanUpCall ==
    /\ At(CleanUpCallers, "clean_up")
    /\ fanBound
    /\ cleanUpCalls' = cleanUpCalls + 1
    /\ Goto(IF fan_pwm # "None" THEN "pwm_stop" ELSE "off")
    /\ UNCHANGED ctlObs
    /\ UNCHANGED <<cfgVars, fanVars, registered, exitStatus, temp, hw, sigObs,
                   cleanUpDone, released, usedAfterCleanUp, raised>>

\* An except clause names fan before main() assigned it.
CleanUpUnbound ==
    /\ At(CleanUpCallers, "clean_up")
    /\ ~fanBound
    /\ Raise("UnboundLocalError")
    /\ UNCHANGED ctlObs
    /\ UNCHANGED <<cfgVars, fanVars, registered, temp, hw, sigObs, cuObs,
                   usedAfterCleanUp>>

\* Line 104: self.pwm.stop().
PwmStop ==
    /\ At(CleanUpCallers, "pwm_stop")
    /\ pwmRunning' = FALSE
    /\ HwCall
    /\ Goto("off")
    /\ UNCHANGED ctlObs
    /\ UNCHANGED <<cfgVars, fanVars, registered, exitStatus, temp, gpioSetup,
                   pinLevel, pwmDuty, sigObs, cuObs, raised>>

\* Off with the write to the pin left out.
Off_keepsLevel ==
    /\ At(CleanUpCallers, "off")
    /\ IF gpioSetup
       THEN /\ HwCall
            /\ Goto("cleanup")
            /\ UNCHANGED <<pinLevel, exitStatus, raised>>
       ELSE /\ Raise("RuntimeError")
            /\ UNCHANGED <<pinLevel, usedAfterCleanUp>>
    /\ UNCHANGED ctlObs
    /\ UNCHANGED <<cfgVars, fanVars, registered, temp, gpioSetup, pwmRunning,
                   pwmDuty, sigObs, cuObs>>

\* Line 106: self.off(); GPIO.output raises RuntimeError on a pin that is not
\* set up as an output, as it is after GPIO.cleanup().
Off ==
    /\ At(CleanUpCallers, "off")
    /\ IF gpioSetup
       THEN /\ pinLevel' = FALSE
            /\ HwCall
            /\ Goto("cleanup")
            /\ UNCHANGED <<exitStatus, raised>>
       ELSE /\ Raise("RuntimeError")
            /\ UNCHANGED <<pinLevel, usedAfterCleanUp>>
    /\ UNCHANGED ctlObs
    /\ UNCHANGED <<cfgVars, fanVars, registered, temp, gpioSetup, pwmRunning,
                   pwmDuty, sigObs, cuObs>>

\* Where control goes when clean_up returns to the frame that called it.
AfterCleanUp ==
    IF Top.clause = "handler"
    THEN [stack EXCEPT ![Len(stack)].pc = "sys_exit"]
    ELSE <<[clause |-> "after", pc |-> "log_stop"]>>

\* Line 107: GPIO.cleanup(), then clean_up returns.
GpioCleanup ==
    /\ At(CleanUpCallers, "cleanup")
    /\ gpioSetup' = FALSE
    /\ released' = released + 1
    /\ cleanUpDone' = cleanUpDone + 1
    /\ HwCall
    /\ stack' = AfterCleanUp
    /\ UNCHANGED ctlObs
    /\ UNCHANGED <<cfgVars, fanVars, registered, exitStatus, temp, pinLevel,
                   pwmRunning, pwmDuty, sigObs, cleanUpCalls, raised>>

\* ------------------------------------ SignalHandler.handler: lines 175 - 176
HandlerExit ==
    /\ At({"handler"}, "sys_exit")
    /\ Raise("SystemExit")
    /\ UNCHANGED ctlObs
    /\ UNCHANGED <<cfgVars, fanVars, registered, temp, hw, sigObs, cuObs,
                   usedAfterCleanUp>>

\* ------------------------------------------------- main(): lines 198 - 201
LogException ==
    /\ At({"Exception"}, "log_exception")
    /\ stack' = <<[clause |-> "after", pc |-> "log_stop"]>>
    /\ UNCHANGED ctlObs
    /\ UNCHANGED <<cfgVars, fanVars, registered, exitStatus, temp, hw, sigObs,
                   cuObs, usedAfterCleanUp, raised>>

\* main() returns and the interpreter exits.
LogStop ==
    /\ At({"after"}, "log_stop")
    /\ stack' = <<>>
    /\ exitStatus' = 0
    /\ UNCHANGED ctlObs
    /\ UNCHANGED <<cfgVars, fanVars, registered, temp, hw, sigObs, cuObs,
                   usedAfterCleanUp, raised>>

\* ----------------------------------------------------------------- signals
MoreSignals == nTerm + nInt < MaxSignals

\* run() is in its sleep: main() is the running frame and sleep is its step.
InSleep == Len(stack) = 1 /\ Top.clause = "try" /\ Top.pc = "sleep"

\* SIGTERM with the handler installed: the handler runs on top of the frame
\* it interrupts.
SigTerm ==
    /\ Running
    /\ MoreSignals
    /\ registered
    /\ nTerm' = nTerm + 1
    /\ termAtSleep' = (termAtSleep \/ InSleep)
    /\ stack' = Append(stack, [clause |-> "handler", pc |-> "clean_up"])
    /\ UNCHANGED ctlObs
    /\ UNCHANGED <<cfgVars, fanVars, registered, exitStatus, temp, hw, nInt,
                   cuObs, usedAfterCleanUp, raised>>

\* SIGTERM before line 190: the default disposition ends the process.
SigTermDefault ==
    /\ Running
    /\ MoreSignals
    /\ ~registered
    /\ nTerm' = nTerm + 1
    /\ stack' = <<>>
    /\ exitStatus' = 143
    /\ UNCHANGED ctlObs
    /\ UNCHANGED <<cfgVars, fanVars, registered, temp, hw, nInt, termAtSleep,
                   cuObs, usedAfterCleanUp, raised>>

\* SIGINT: KeyboardInterrupt is raised in the running frame.
SigInt ==
    /\ Running
    /\ MoreSignals
    /\ nInt' = nInt + 1
    /\ Raise("KeyboardInterrupt")
    /\ UNCHANGED ctlObs
    /\ UNCHANGED <<cfgVars, fanVars, registered, temp, hw, nTerm, termAtSleep,
                   cuObs, usedAfterCleanUp>>

Next ==
    \/ LoadConfig
    \/ LoadConfigTypeError
    \/ InitGpio
    \/ InitOnOff
    \/ InitPwm
    \/ InitPwmKeyError
    \/ InitStart
    \/ RegisterHandler
    \/ ReadTemperature
    \/ ReadZeroDivision
    \/ ReadIOError
    \/ ReadValueError
    \/ on_off_control
    \/ pwm_control
    \/ PwmControlKeyError
    \/ PwmControlZeroDivision
    \/ Sleep
    \/ SleepTypeError
    \/ CleanUpCall
    \/ CleanUpUnbound
    \/ PwmStop
    \/ Off
    \/ GpioCleanup
    \/ HandlerExit
    \/ LogException
    \/ LogStop
    \/ SigTerm
    \/ SigTermDefault
    \/ SigInt

Spec == Init /\ [][Next]_vars

\* ------------------------------------------------ duty-ratio specification
\* The PWM loop alone, over every pwm block with temp_min < temp_max among
\* the whole degrees 60 .. 60 + DutyTempMax and a duty_min in 0..100, and every
\* reading from 59.9 to a tenth above the last degree.
DutyGrid == {600 + 10 * k : k \in 0..DutyTempMax}
DutyTemps == 599..(600 + 10 * DutyTempMax + 1)
DutyMins == {0, 1, 30, 50, 70, 99, 100}

\* What loadConfig returns for a user file with the given pwm block.
DutyConfig(low, high, duty_min) ==
    DictUpdate(DictSet(CONFIG, MODE, Str(PWM)),
               [pwm |-> [freq |-> Num(50), duty_min |-> Num(duty_min),
                         temp_max |-> Num(high), temp_min |-> Num(low)]])

\* Fan.__init__ has created the PWM channel (line 87) and is about to start it.
InitDuty ==
    /\ cfgSrc = "pwm_full"
    /\ \E low \in DutyGrid, high \in DutyGrid, duty_min \in DutyMins :
          /\ low < high
          /\ config = DutyConfig(low, high, duty_min)
    /\ fanBound = FALSE
    /\ fan_pwm = "PWM"
    /\ fan_control = "on_off_control"
    /\ registered = FALSE
    /\ stack = <<[clause |-> "try", pc |-> "init_start"]>>
    /\ exitStatus = -1
    /\ temp = 0
    /\ gpioSetup = TRUE
    /\ pinLevel = FALSE
    /\ pwmRunning = FALSE
    /\ pwmDuty = 0
    /\ nTerm = 0
    /\ nInt = 0
    /\ termAtSleep = FALSE
    /\ cleanUpCalls = 0
    /\ cleanUpDone = 0
    /\ released = 0
    /\ usedAfterCleanUp = FALSE
    /\ raised = NoException
    /\ dutyCalls = 0
    /\ pinCalls = 0

\* getTemperature() returns a reading of the grid.
ReadDutyTemp ==
    /\ At({"try"}, "getTemperature")
    /\ temp' \in DutyTemps
    /\ Goto("control")
    /\ dutyCalls' = 0
    /\ pinCalls' = 0
    /\ UNCHANGED <<cfgVars, fanVars, registered, exitStatus, hw, sigObs, cuObs,
                   usedAfterCleanUp, raised>>

NextDuty ==
    \/ InitStart
    \/ RegisterHandler
    \/ ReadDutyTemp
    \/ pwm_control
    \/ Sleep

SpecDuty == InitDuty /\ [][NextDuty]_vars

\* ================================================================== claims
Exited == exitStatus # -1

\* The steps of Fan.clean_up that call into RPi.GPIO.
CleanUpSteps == {"pwm_stop", "off", "cleanup"}

\* C1: whenever the process exits after the Fan was constructed and run() was
\* reached, the pin is at logical-off and the PWM channel is stopped.
C1_OffAtExit ==
    (Exited /\ fanBound /\ registered) => (pinLevel = FALSE /\ ~pwmRunning)

\* C2: a failure of the temperature read inside run() (file unreadable or
\* unparseable) leads to a call of clean_up() before the process exits.
C2_ReadFailureCleansUp ==
    (Exited /\ raised.pc = "getTemperature"
            /\ raised.exc \in {"IOError", "ValueError"})
        => cleanUpCalls >= 1

\* C3: when SIGTERM is delivered while run() is in its sleep, and it is the
\* only signal of the run, the process exits with status 0 after exactly one
\* clean_up(), which ran to its end: PWM stopped, pin off, GPIO released.
C3_TermMidSleep ==
    (Exited /\ termAtSleep /\ nTerm = 1 /\ nInt = 0)
        => /\ exitStatus = 0
           /\ cleanUpCalls = 1
           /\ cleanUpDone = 1
           /\ released = 1
           /\ pinLevel = FALSE
           /\ ~pwmRunning
           /\ ~gpioSetup

\* C3 witness: such a run has ended, and the fan was on when the signal came
\* (the pin was on in on/off mode, or the duty cycle was above 0 in PWM mode).
C3_Witness ==
    /\ Exited
    /\ termAtSleep
    /\ nTerm = 1
    /\ nInt = 0
    /\ cleanUpDone = 1
    /\ pwmDuty > 0

\* C4: with the handler installed, the hardware is released by clean_up()
\* exactly once: never a second time, and never zero times at exit.
C4_ReleasedExactlyOnce ==
    /\ released <= 1
    /\ (Exited /\ fanBound /\ registered) => released = 1

\* C5: once a clean_up() has returned, no further call into the hardware takes
\* effect.
C5_NoUseAfterCleanUp == ~usedAfterCleanUp

\* C6: a clean_up() called after a clean_up() that returned raises no error
\* and leaves the terminal hardware state (pin off, PWM stopped, released).
C6_SecondCleanUpNoError ==
    (cleanUpDone >= 1 /\ cleanUpCalls >= 2)
        => /\ ~(raised.exc = "RuntimeError" /\ raised.pc \in CleanUpSteps)
           /\ (pinLevel = FALSE /\ ~pwmRunning /\ ~gpioSetup)

\* C7: clean_up() never throws: no failure of one of its steps leaves it as an
\* exception.
C7_CleanUpNeverThrows ==
    (raised.clause \in CleanUpCallers /\ raised.pc \in CleanUpSteps)
        => raised.exc = "KeyboardInterrupt"

\* The parameters of a complete pwm block.
PwmParameters == {FREQ, DUTY_RATIO_MIN, TEMP_MIN, TEMP_MAX}

\* C8: a configuration that selects PWM without the complete set of PWM
\* parameters never yields a constructed Fan, and no iteration of run() is
\* where the missing parameter is found.
C8_IncompletePwmRejected ==
    /\ (fanBound /\ PwmSelected(config))
          => PwmParameters \subseteq DOMAIN config[PWM]
    /\ ~(raised.exc = "KeyError" /\ raised.pc = "control")

\* C9: a configuration in PWM mode with temp_min >= temp_max never yields a
\* constructed Fan.
C9_InvertedBoundsRejected ==
    (PwmSelected(config) /\ {TEMP_MIN, TEMP_MAX} \subseteq DOMAIN config[PWM]
        /\ config[PWM][TEMP_MIN].num >= config[PWM][TEMP_MAX].num)
        => ~fanBound

\* The configuration source has no pwm block.
NoPwmBlock(src) ==
    \/ src = "nofile"
    \/ (~YamlIsNone(src) /\ PWM \notin DOMAIN YamlLoad(src))

\* C10: from a configuration source without a pwm block, the constructed Fan
\* is in on/off mode: its strategy is on_off_control and it has no PWM channel.
C10_NoPwmBlockIsOnOff ==
    (fanBound /\ NoPwmBlock(cfgSrc))
        => (fan_control = "on_off_control" /\ fan_pwm = "None" /\ ~pwmRunning)


\* run() has applied the reading temp and is in its sleep, undisturbed: main()
\* is the only frame (no handler has started a clean_up).
Actuated == Running /\ InSleep

\* C11: in on/off mode, after an iteration with reading temp the pin is
\* logical-on if temp > threshold and logical-off if temp <= threshold,
\* whatever it was before.
C11_StrictThreshold ==
    (Actuated /\ fan_control = "on_off_control")
        => /\ (temp > config[TEMP_THRESHOLD].num => pinLevel = TRUE)
           /\ (temp <= config[TEMP_THRESHOLD].num => pinLevel = FALSE)

\* C11 witness: an iteration whose reading equals the threshold left the pin
\* off.
C11_Witness ==
    /\ Actuated
    /\ fan_control = "on_off_control"
    /\ temp = config[TEMP_THRESHOLD].num
    /\ pinLevel = FALSE

\* The bounds and the floor of the pwm block in force.
CfgLow == config[PWM][TEMP_MIN].num
CfgHigh == config[PWM][TEMP_MAX].num
CfgDutyMin == config[PWM][DUTY_RATIO_MIN].num

\* C12: for low < high the duty ratio is 100 for every temp > high and 0 for
\* every temp < low, as getDutyRatio computes it and as pwm_control applies it
\* with low = temp_min and high = temp_max.
C12_Saturates ==
    /\ \A t \in DutyTemps :
          /\ (t > CfgHigh =>
                getDutyRatioFloat(t, CfgHigh, CfgLow, CfgDutyMin) = {100})
          /\ (t < CfgLow =>
                getDutyRatioFloat(t, CfgHigh, CfgLow, CfgDutyMin) = {0})
    /\ (Actuated /\ fan_control = "pwm_control")
          => /\ (temp > CfgHigh => pwmDuty = 100)
             /\ (temp < CfgLow => pwmDuty = 0)

\* C12 witness: an iteration with a reading below temp_min set the duty cycle
\* to 0 although the floor duty_min is above 0.
C12_Witness ==
    /\ Actuated
    /\ fan_control = "pwm_control"
    /\ temp < CfgLow
    /\ CfgDutyMin > 0
    /\ pwmDuty = 0


\* The interpolation of line 67 for a reading t as the fraction
\* InterpNum(t) / InterpDen of exact arithmetic.
InterpDen == CfgHigh - CfgLow
InterpNum(t) == (t - CfgLow) * (100 - CfgDutyMin) + CfgDutyMin * InterpDen

\* C13: for low <= temp <= high with low < high the duty ratio is
\* (temp - low) / (high - low) * (100 - dutyMin) + dutyMin truncated to an
\* integer and capped at 100.  Stated for the reading 60.3 between low = 60
\* and high = 61 with dutyMin = 0, where the formula gives 30: the duty cycle
\* an iteration of pwm_control sets for it is the truncated, capped value.
C13_Interpolation ==
    (Actuated /\ fan_control = "pwm_control"
       /\ CfgLow = 600 /\ CfgHigh = 610 /\ CfgDutyMin = 0 /\ temp = 603)
       => pwmDuty = IF InterpNum(temp) < 100 * InterpDen
                    THEN Trunc(InterpNum(temp), InterpDen)
                    ELSE 100

\* C14: for fixed low < high and dutyMin in 0..100 a higher reading never gets
\* a lower duty ratio, over the whole range and both saturation boundaries:
\* the duty cycle an iteration set for its reading is at least every value
\* getDutyRatio can return for a lower reading and at most every value it can
\* return for a higher one (for equal readings the two calls return the same
\* value, getDutyRatio being a function of its arguments).
C14_Monotonic ==
    (Actuated /\ fan_control = "pwm_control")
       => \A t \in DutyTemps :
             \A r \in getDutyRatioFloat(t, CfgHigh, CfgLow, CfgDutyMin) :
                /\ (t < temp => r <= pwmDuty)
                /\ (temp < t => pwmDuty <= r)

\* C14 witness: an iteration set a duty cycle strictly inside dutyMin..100 for
\* a reading strictly inside the band, and the reading a tenth lower gets a
\* strictly smaller ratio.
C14_Witness ==
    /\ Actuated
    /\ fan_control = "pwm_control"
    /\ CfgLow < temp
    /\ temp < CfgHigh
    /\ CfgDutyMin < pwmDuty
    /\ pwmDuty < 100
    /\ \A r \in getDutyRatioFloat(temp - 1, CfgHigh, CfgLow, CfgDutyMin) :
          r < pwmDuty

\* C16: with temp_min < temp_max and 0 <= duty_min <= 100, every value handed
\* to the PWM channel (the 0 of start and the value of each iteration) is an
\* integer in 0..100 for every reading, so ChangeDutyCycle never refuses one.
C16_DutyInRange ==
    /\ pwmDuty \in 0..100
    /\ raised = NoException
    /\ (Actuated /\ fan_control = "pwm_control") => pwmDuty \in pwm_duty(temp)

\* C16 witness: an iteration handed the channel a value from the interpolation
\* that a reading with a rounding doubt produced.
C16_Witness ==
    /\ Actuated
    /\ fan_control = "pwm_control"
    /\ pwmRunning
    /\ CfgLow < temp
    /\ temp < CfgHigh
    /\ pwmDuty \in 1..99
    /\ ~FloatExact(temp, CfgHigh, CfgLow, CfgDutyMin)


\* C15: clean_up performs its hardware steps in a fixed order.  A call goes to
\* the PWM stop first if a channel exists and straight to the pin write if none
\* does (no PWM stop in on/off mode); the pin write follows with the channel
\* stopped and drives the pin to off; the GPIO release comes last, from the
\* last line of clean_up, with the pin off and the channel stopped.
C15_CleanUpOrder ==
    [][/\ (cleanUpCalls' # cleanUpCalls)
             => Top'.pc = IF fan_pwm = "None" THEN "off" ELSE "pwm_stop"
       /\ (pwmRunning /\ ~pwmRunning')
             => /\ At(CleanUpCallers, "pwm_stop")
                /\ fan_pwm # "None"
                /\ Top'.pc = "off"
                /\ gpioSetup' = gpioSetup
                /\ pinLevel' = pinLevel
       /\ (At(CleanUpCallers, "off") /\ Len(stack') = Len(stack)
             /\ stack' # stack)
             => /\ ~pwmRunning
                /\ gpioSetup
                /\ ~pinLevel'
                /\ Top'.pc = "cleanup"
       /\ (released' # released)
             => /\ At(CleanUpCallers, "cleanup")
                /\ ~pinLevel
                /\ ~pwmRunning
                /\ ~gpioSetup'
      ]_vars

\* C15 witness: a clean_up of a fan with a PWM channel that was driving the fan
\* ran to its end: channel stopped, pin off, GPIO released.
C15_Witness ==
    /\ fan_pwm = "PWM"
    /\ pwmDuty > 0
    /\ cleanUpDone = 1
    /\ released = 1
    /\ ~pwmRunning
    /\ ~pinLevel
    /\ ~gpioSetup


\* The thread is in the loop of run(), at the given line of it.
InLoop(pc) == At({"try"}, pc)

\* C17: the strategy is chosen at construction and stays fixed.  Once main()
\* holds the Fan, no step changes the configuration, the strategy or the
\* channel; an iteration of run() in PWM mode calls ChangeDutyCycle exactly
\* once, with the duty ratio of its reading whether or not that is the value in
\* force, and never writes the pin; an iteration in on/off mode writes the pin
\* exactly once and has no PWM channel to touch; reading and sleeping leave the
\* hardware alone.
C17_StrategyFixed ==
    [][/\ fanBound
             => /\ config' = config
                /\ fan_control' = fan_control
                /\ fan_pwm' = fan_pwm
       /\ (InLoop("control") /\ InLoop("sleep")' /\ fan_control = "pwm_control")
             => /\ dutyCalls = 0
                /\ dutyCalls' = 1
                /\ pinCalls' = 0
                /\ pwmDuty' \in pwm_duty(temp)
                /\ pinLevel' = pinLevel
                /\ pwmRunning' = pwmRunning
       /\ (InLoop("control") /\ InLoop("sleep")' /\ fan_control # "pwm_control")
             => /\ fan_control = "on_off_control"
                /\ fan_pwm = "None"
                /\ pinCalls = 0
                /\ pinCalls' = 1
                /\ dutyCalls' = 0
                /\ pwmDuty' = pwmDuty
                /\ pwmRunning' = pwmRunning
       /\ (InLoop("getTemperature") /\ InLoop("control")') => hw' = hw
       /\ (InLoop("sleep") /\ InLoop("getTemperature")')
             => /\ hw' = hw
                /\ dutyCalls' = dutyCalls
                /\ pinCalls' = pinCalls
      ]_vars

\* C17 witness: an iteration in PWM mode called ChangeDutyCycle once, with the 0
\* the channel was started with, and did not write the pin.
C17_Witness ==
    /\ Actuated
    /\ fan_control = "pwm_control"
    /\ dutyCalls = 1
    /\ pinCalls = 0
    /\ pwmDuty = 0
    /\ ~pinLevel
    /\ raised = NoException


\* C18: run() has no natural exit.  From the moment the handler is installed,
\* as long as no signal has been delivered and no exception raised, the process
\* is alive in the loop of run(), and each step takes it from the reading to
\* the control, from the control to the sleep and from the sleep back to the
\* reading; it never reaches the end of main() on its own.
C18_NoNaturalExit ==
    [][(registered /\ nTerm' + nInt' = 0 /\ raised' = NoException)
          => /\ exitStatus' = -1
             /\ InLoop("getTemperature") \/ InLoop("control") \/ InLoop("sleep")
             /\ InLoop("getTemperature") => InLoop("control")'
             /\ InLoop("control") => InLoop("sleep")'
             /\ InLoop("sleep") => InLoop("getTemperature")'
      ]_vars

\* C18 witness: undisturbed, the loop came round to a further reading after a
\* full iteration.
C18_Witness ==
    /\ registered
    /\ nTerm + nInt = 0
    /\ raised = NoException
    /\ InLoop("getTemperature")
    /\ temp # 0
    /\ dutyCalls + pinCalls = 1


\* C19: for every raw reading r, readings of fewer than 4 digits included,
\* getTemperature returns a value (whole = r div 1000 and fractionalPart =
\* (r div 100) mod whole, as whole.fractionalPart): no call of it ends in the
\* ZeroDivisionError of a modulus by whole = 0.
C19_ReadingReturns ==
    ~(raised.exc = "ZeroDivisionError" /\ raised.pc = "getTemperature")

\* C20: clean_up is only ever invoked on a constructed Fan: whenever an except
\* clause of main() or the signal handler is about to call fan.clean_up(), fan
\* has been assigned, and no handler ends in a secondary error of its own.
C20_CleanUpOnConstructedFan ==
    /\ At(CleanUpCallers, "clean_up") => fanBound
    /\ raised.exc # "UnboundLocalError"

====
